---- MODULE Spec2Model ----
(***************************************************************************)
(* A model of the zee editing core: the Cursor of zee-edit/src/lib.rs, the *)
(* Buffer component of zee/src/components/buffer/mod.rs and the Edit Tree  *)
(* the two are layered on.                                                 *)
(*                                                                         *)
(* A text buffer (ropey::Rope) is a sequence of characters.  Character     *)
(* indices are zero-based as in the source: index i is the gap before the  *)
(* (i+1)-th element of the sequence.                                       *)
(***************************************************************************)
EXTENDS Integers, Sequences, FiniteSets, TLC

VARIABLES
    text,             \* the buffer the cursor edits (EditTree::staged)
    cursor,           \* Cursor { range, selection }
    last_op,          \* name of the last operation that ran
    diff,             \* OpaqueDiff returned by the last editing operation
    deleted,          \* DeleteOperation::deleted of the last deletion
    panicked,         \* TRUE once an operation hit an unrecoverable error
    revisions,        \* EditTree: the arena of revisions
    current,          \* EditTree: index of the current revision
    viewing_edit_tree,\* Buffer::viewing_edit_tree
    trail,            \* history: the last steps, each with the state it started from
    alphabet,         \* the characters the buffers of this behaviour are made of
    watcher,          \* FileWatcher { inner, state: WatcherState { events, watchees } }
    link,             \* ComponentLink: the tokens the last callback sent Refresh to
    call,             \* the arguments of the last call into the FileWatcher
    frame,            \* Buffer::frame
    line_offset,      \* Buffer::line_offset
    should_render     \* ShouldRender::Yes returned by the last Component callback

vars == <<text, cursor, last_op, diff, deleted, panicked,
          revisions, current, viewing_edit_tree, trail, alphabet,
          watcher, link, call, frame, line_offset, should_render>>

tree_vars == <<revisions, current, viewing_edit_tree, trail>>

watch_vars == <<watcher, link, call>>

view_vars == <<frame, line_offset, should_render>>

----------------------------------------------------------------------------
(* Bounds *)

MaxLen == 3        \* longest buffer explored
MaxInitLen == 2    \* longest buffer a behaviour starts from
MaxInsert == 1     \* longest character sequence handed to insert_chars
MaxSyncLen == 1    \* longest buffer handed to sync

MaxRevisions == 3  \* most revisions an Edit Tree grows to
MaxTrail == 2      \* steps of history kept in trail
MaxTreeLen == 2    \* longest buffer staged in an Edit Tree
MaxTreeInitLen == 1 \* longest buffer an Edit Tree is created with

\* a selection anchor is followed up to one past the longest buffer
MaxAnchor == MaxLen + 1

MaxIndentLines == 2  \* most lines of an indented buffer
MaxIndent == 5       \* longest run of spaces a line is indented with

----------------------------------------------------------------------------
(* Characters.  "m" stands for a combining mark (U+0301), a two-byte scalar *)
(* value with Grapheme_Cluster_Break = Extend; the others are ASCII.        *)

Letter == "a"
Space == " "
Tab == "\t"
Newline == "\n"
Mark == "m"

Chars == {Letter, Space, Tab, Newline, Mark}

len_utf8(c) == IF c = Mark THEN 2 ELSE 1

TAB_WIDTH == 4

None == -1

Min(a, b) == IF a <= b THEN a ELSE b
Max(a, b) == IF a >= b THEN a ELSE b
saturating_sub(a, b) == IF a >= b THEN a - b ELSE 0

RECURSIVE SeqsUpTo(_, _)
SeqsUpTo(S, n) ==
    IF n = 0 THEN {<<>>}
    ELSE LET shorter == SeqsUpTo(S, n - 1)
         IN  shorter \cup {Append(s, c) : s \in shorter, c \in S}

\* the value of watcher where no FileWatcher is created
NoWatcher == <<>>

\* Rect: its size.height is all the Buffer reads
Rect(height) == [height |-> height]

\* the value of frame where no Buffer is drawn
NoFrame == Rect(0)

----------------------------------------------------------------------------
(* ropey::Rope *)

len_chars(t) == Len(t)

slice(t, from, to) == SubSeq(t, from + 1, to)

remove(t, from, to) == SubSeq(t, 1, from) \o SubSeq(t, to + 1, Len(t))

insert_chars_seq(t, index, cs) ==
    SubSeq(t, 1, index) \o cs \o SubSeq(t, index + 1, Len(t))

RECURSIVE byte_len(_)
byte_len(t) == IF t = <<>> THEN 0 ELSE len_utf8(Head(t)) + byte_len(Tail(t))

char_to_byte(t, i) == byte_len(SubSeq(t, 1, i))

NewlinesBefore(t, i) == Cardinality({k \in 1..i : t[k] = Newline})

len_lines(t) == NewlinesBefore(t, Len(t)) + 1

char_to_line(t, i) == NewlinesBefore(t, i)

\* start of line l; l = len_lines(t) is one-past-the-end and gives len_chars
line_to_char(t, l) ==
    IF l = 0 THEN 0
    ELSE IF l >= len_lines(t) THEN Len(t)
    ELSE CHOOSE i \in 1..Len(t) : t[i] = Newline /\ NewlinesBefore(t, i) = l

line_len_chars(t, l) == line_to_char(t, l + 1) - line_to_char(t, l)

----------------------------------------------------------------------------
(* graphemes: extended grapheme cluster boundaries (UAX #29 rules GB1-GB5, *)
(* GB9, GB999 over the alphabet above: a mark extends the cluster of the   *)
(* character before it unless that character is a control).                *)

IsControl(c) == c \in {Tab, Newline}

is_grapheme_boundary(t, i) ==
    \/ i = 0
    \/ i = Len(t)
    \/ /\ 0 < i /\ i < Len(t)
       /\ ~(t[i + 1] = Mark /\ ~IsControl(t[i]))

prev_grapheme_boundary(t, i) ==
    IF i = 0 THEN 0
    ELSE CHOOSE j \in 0..(i - 1) :
            /\ is_grapheme_boundary(t, j)
            /\ \A k \in (j + 1)..(i - 1) : ~is_grapheme_boundary(t, k)

next_grapheme_boundary(t, i) ==
    IF i >= Len(t) THEN Len(t)
    ELSE CHOOSE j \in (i + 1)..Len(t) :
            /\ is_grapheme_boundary(t, j)
            /\ \A k \in (i + 1)..(j - 1) : ~is_grapheme_boundary(t, k)

RECURSIVE next_grapheme_boundary_n(_, _, _)
next_grapheme_boundary_n(t, i, n) ==
    IF n = 0 \/ i >= Len(t) THEN i
    ELSE next_grapheme_boundary_n(t, next_grapheme_boundary(t, i), n - 1)

RECURSIVE prev_grapheme_boundary_n(_, _, _)
prev_grapheme_boundary_n(t, i, n) ==
    IF n = 0 \/ i = 0 THEN i
    ELSE prev_grapheme_boundary_n(t, prev_grapheme_boundary(t, i), n - 1)

----------------------------------------------------------------------------
(* OpaqueDiff, DeleteOperation, Cursor values *)

OpaqueDiff(bi, obl, nbl, ci, ocl, ncl) ==
    [byte_index |-> bi, old_byte_length |-> obl, new_byte_length |-> nbl,
     char_index |-> ci, old_char_length |-> ocl, new_char_length |-> ncl]

EmptyDiff == OpaqueDiff(0, 0, 0, 0, 0, 0)

Range(s, e) == [start |-> s, end |-> e]

CursorNew == [range |-> Range(0, 0), selection |-> None]

with_range(r) == [range |-> r, selection |-> None]

\* What an operation hands back: whether it panicked, the buffer and cursor
\* it leaves, and the diff / deleted text it returns.
Ret(t, c, d, del) ==
    [panic |-> FALSE, text |-> t, cursor |-> c, diff |-> d, deleted |-> del]

Panic(t, c) ==
    [panic |-> TRUE, text |-> t, cursor |-> c, diff |-> EmptyDiff, deleted |-> <<>>]

DeleteOperationEmpty(t, c) == Ret(t, c, EmptyDiff, <<>>)

----------------------------------------------------------------------------
(* movement *)

\* move_horizontally: the cursor lands on the grapheme `count` clusters away
\* and covers it.  The caller checks c.range.start <= len_chars(t).
move_horizontally(t, c, direction, count) ==
    LET grapheme_start ==
            IF direction = "Forward"
            THEN next_grapheme_boundary_n(t, c.range.start, count)
            ELSE prev_grapheme_boundary_n(t, c.range.start, count)
    IN  [c EXCEPT !.range = Range(grapheme_start,
                                  next_grapheme_boundary(t, grapheme_start))]

move_to_start_of_buffer(t, c) ==
    [c EXCEPT !.range = Range(0, next_grapheme_boundary(t, 0))]

\* A count that wrapped below zero is larger than any buffer: the move stops
\* at the end of the buffer.
WrappedCount(t) == Len(t) + 1

----------------------------------------------------------------------------
(* Cursor *)

selection(c) ==
    IF c.selection # None /\ c.selection > c.range.start
    THEN Range(c.range.start, c.selection)
    ELSE IF c.selection # None /\ c.selection < c.range.start
    THEN Range(c.selection, c.range.start)
    ELSE c.range

begin_selection(c) == [c EXCEPT !.selection = c.range.start]

clear_selection(c) == [c EXCEPT !.selection = None]

select_all(t, c) ==
    [move_to_start_of_buffer(t, c) EXCEPT !.selection = len_chars(t)]

reconcile(c, new_text, d) ==
    LET modified_start == d.char_index
        modified_end == Max(d.old_char_length, d.new_char_length)
        shifted ==
            IF modified_end <= c.range.start
            THEN IF d.old_char_length > d.new_char_length
                 THEN LET length_change == d.old_char_length - d.new_char_length
                      IN  Range(saturating_sub(c.range.start, length_change),
                                saturating_sub(c.range.end, length_change))
                 ELSE LET length_change == d.new_char_length - d.old_char_length
                      IN  Range(c.range.start + length_change,
                                c.range.end + length_change)
            ELSE c.range
        grapheme_start ==
            prev_grapheme_boundary(new_text, Min(shifted.end, len_chars(new_text)))
        grapheme_end == next_grapheme_boundary(new_text, grapheme_start)
    IN  IF modified_start >= c.range.end
        THEN c
        ELSE [c EXCEPT !.range = Range(grapheme_start, grapheme_end)]


\* mutant: the selection is kept
insert_char_keeps_selection(c, t, character) ==
    LET c1 == c
        index == c.range.start
    IN  IF index > len_chars(t)
        THEN Panic(t, c)
        ELSE LET t1 == insert_chars_seq(t, index, <<character>>)
             IN  Ret(t1, c1,
                     OpaqueDiff(char_to_byte(t1, index), 0, len_utf8(character),
                                index, 0, 1),
                     <<>>)

insert_char(c, t, character) ==
    LET c1 == clear_selection(c)
        index == c.range.start
    IN  IF index > len_chars(t)
        THEN Panic(t, c)
        ELSE LET t1 == insert_chars_seq(t, index, <<character>>)
             IN  Ret(t1, c1,
                     OpaqueDiff(char_to_byte(t1, index), 0, len_utf8(character),
                                index, 0, 1),
                     <<>>)

RECURSIVE prepend_lines(_, _, _, _)
prepend_lines(t, line_idx, last_line_idx, prefix) ==
    IF line_idx > last_line_idx THEN t
    ELSE prepend_lines(insert_chars_seq(t, line_to_char(t, line_idx), prefix),
                       line_idx + 1, last_line_idx, prefix)

prepend_selection(c, t, characters, oc) ==
    LET sel == selection(c)
    IN  IF sel.end > len_chars(t) THEN Panic(t, c) ELSE
    LET first_line_idx == char_to_line(t, sel.start)
        last_line_idx == char_to_line(t, sel.end)
        next_line_start == line_to_char(t, last_line_idx + 1)
        first_line_start == line_to_char(t, first_line_idx)
    IN  \* line_to_char(last_line_idx + 1) - 1 and the two old lengths
        IF next_line_start = 0 \/ next_line_start - 1 < first_line_start
        THEN Panic(t, c) ELSE
    LET end_of_last_line_idx == next_line_start - 1
        old_byte_length ==
            char_to_byte(t, end_of_last_line_idx) - char_to_byte(t, first_line_start)
        old_char_length == end_of_last_line_idx - first_line_start
        lines == last_line_idx - first_line_idx + 1
        num_bytes == byte_len(characters) * lines
        num_chars == Len(characters) * lines
        t1 == prepend_lines(t, first_line_idx, last_line_idx, characters)
        d == OpaqueDiff(char_to_byte(t1, line_to_char(t1, first_line_idx)),
                        old_byte_length, old_byte_length + num_bytes,
                        line_to_char(t1, first_line_idx),
                        old_char_length, old_char_length + num_chars)
    IN  IF c.selection = None THEN Ret(t1, c, d, <<>>)
        ELSE IF last_line_idx = first_line_idx THEN Panic(t, c)  \* division by zero
        ELSE IF sel.end = c.range.start
        THEN \* Forward selection direction
             IF num_chars = 0 /\ oc THEN Panic(t, c)
             ELSE LET count == IF num_chars = 0 THEN WrappedCount(t1)
                               ELSE num_chars - 1
                      c1 == move_horizontally(t1, c, "Forward", count)
                  IN  Ret(t1,
                          [c1 EXCEPT !.selection = c.selection
                              + (num_chars \div (last_line_idx - first_line_idx))],
                          d, <<>>)
        ELSE \* 'Backwards' selection direction
             LET per_line == num_chars \div (last_line_idx - first_line_idx)
             IN  IF per_line = 0 /\ oc THEN Panic(t, c)
                 ELSE LET count == IF per_line = 0 THEN WrappedCount(t1)
                                   ELSE per_line - 1
                          c1 == move_horizontally(t1, c, "Forward", count)
                      IN  Ret(t1, [c1 EXCEPT !.selection = c.selection + num_chars],
                              d, <<>>)

insert_chars_at_index(c, t, index, characters, oc) ==
    IF c.selection # None
    THEN prepend_selection(c, t, characters, oc)
    ELSE IF characters # <<>> /\ index > len_chars(t)
    THEN Panic(t, c)
    ELSE IF c.range.start > len_chars(t) + Len(characters)
    THEN Panic(t, c)
    ELSE LET t1 == IF characters = <<>> THEN t
                   ELSE insert_chars_seq(t, index, characters)
         IN  Ret(t1, c,
                 OpaqueDiff(char_to_byte(t1, c.range.start), 0, byte_len(characters),
                            index, 0, Len(characters)),
                 <<>>)

insert_chars(c, t, characters, oc) ==
    insert_chars_at_index(c, t, c.range.start, characters, oc)

prepend_chars(c, t, characters, oc) ==
    IF c.range.start > len_chars(t) THEN Panic(t, c)
    ELSE insert_chars_at_index(c, t, line_to_char(t, char_to_line(t, c.range.start)),
                               characters, oc)

length_of_leading_whitespace(t, line_start) ==
    IF line_start >= len_chars(t) THEN 0            \* get_char: None
    ELSE IF t[line_start + 1] = Tab THEN 1
    ELSE IF line_start + TAB_WIDTH > len_chars(t) THEN 0   \* get_slice: None
    ELSE LET leading_chars == slice(t, line_start, line_start + TAB_WIDTH)
             not_space == {k \in 1..TAB_WIDTH : leading_chars[k] # Space}
         IN  IF not_space = {} THEN TAB_WIDTH
             ELSE (CHOOSE k \in not_space : \A j \in not_space : k <= j) - 1


\* mutant: the diff's old length is measured after the removal
delete_forward_from_index_late_diff(c, t, index, length) ==
    IF len_chars(t) = 0 \/ len_chars(t) = index \/ length = 0
    THEN DeleteOperationEmpty(t, c)
    ELSE IF index + length > len_chars(t)
    THEN Panic(t, c)
    ELSE LET t1 == remove(t, index, index + length)
             grapheme_start == index
             grapheme_end == next_grapheme_boundary(t1, index)
             d == OpaqueDiff(char_to_byte(t, index),
                             char_to_byte(t1, grapheme_end) - char_to_byte(t1, index),
                             0, index, grapheme_end - grapheme_start, 0)
         IN  Ret(t1, with_range(Range(grapheme_start, grapheme_end)), d,
                 slice(t1, grapheme_start, grapheme_end))

delete_forward_from_index(c, t, index, length) ==
    IF len_chars(t) = 0 \/ len_chars(t) = index \/ length = 0
    THEN DeleteOperationEmpty(t, c)
    ELSE IF index + length > len_chars(t)
    THEN Panic(t, c)
    ELSE LET d == OpaqueDiff(char_to_byte(t, index),
                             char_to_byte(t, index + length) - char_to_byte(t, index),
                             0, index, length, 0)
             t1 == remove(t, index, index + length)
             grapheme_start == index
             grapheme_end == next_grapheme_boundary(t1, index)
         IN  Ret(t1, with_range(Range(grapheme_start, grapheme_end)), d,
                 slice(t1, grapheme_start, grapheme_end))

delete_forward(c, t) ==
    delete_forward_from_index(c, t, c.range.start, c.range.end - c.range.start)


\* mutant: the cursor is not moved back before the deletion
delete_backward_in_place(c, t) ==
    IF c.range.start > 0
    THEN IF c.range.start > len_chars(t) THEN Panic(t, c)
         ELSE delete_forward(c, t)
    ELSE DeleteOperationEmpty(t, c)


\* mutant: no check for the start of the buffer
delete_backward_unguarded(c, t) ==
    IF c.range.start > len_chars(t) THEN Panic(t, c)
    ELSE delete_forward(move_horizontally(t, c, "Backward", 1), t)

delete_backward(c, t) ==
    IF c.range.start > 0
    THEN IF c.range.start > len_chars(t) THEN Panic(t, c)
         ELSE delete_forward(move_horizontally(t, c, "Backward", 1), t)
    ELSE DeleteOperationEmpty(t, c)

delete_line(c, t) ==
    IF len_chars(t) = 0 THEN DeleteOperationEmpty(t, c)
    ELSE IF c.range.start > len_chars(t) THEN Panic(t, c)
    ELSE LET line_index == char_to_line(t, c.range.start)
             delete_range_start == line_to_char(t, line_index)
             delete_range_end == line_to_char(t, line_index + 1)
             d == OpaqueDiff(char_to_byte(t, delete_range_start),
                             char_to_byte(t, delete_range_end)
                                 - char_to_byte(t, delete_range_start),
                             0, delete_range_start,
                             delete_range_end - delete_range_start, 0)
             t1 == remove(t, delete_range_start, delete_range_end)
             grapheme_start ==
                 line_to_char(t1, Min(line_index, saturating_sub(len_lines(t1), 2)))
             grapheme_end == next_grapheme_boundary(t1, grapheme_start)
         IN  Ret(t1, with_range(Range(grapheme_start, grapheme_end)), d,
                 slice(t, delete_range_start, delete_range_end))

delete_selection(c, t) ==
    IF len_chars(t) = 0 THEN DeleteOperationEmpty(t, c)
    ELSE LET sel == selection(c)
         IN  IF sel.end > len_chars(t) THEN Panic(t, c)
             ELSE LET d == OpaqueDiff(char_to_byte(t, sel.start),
                                      char_to_byte(t, sel.end) - char_to_byte(t, sel.start),
                                      0, sel.start, sel.end - sel.start, 0)
                      t1 == remove(t, sel.start, sel.end)
                      grapheme_start ==
                          Min(c.range.start, prev_grapheme_boundary(t1, len_chars(t1)))
                      grapheme_end == next_grapheme_boundary(t1, grapheme_start)
                  IN  Ret(t1, with_range(Range(grapheme_start, grapheme_end)), d,
                          slice(t, sel.start, sel.end))

RECURSIVE unindent_lines(_, _, _, _)
\* the loop of unindent_selection: <<buffer, total_chars_removed>>
unindent_lines(t, line_idx, last_line_idx, total_chars_removed) ==
    IF line_idx > last_line_idx THEN <<t, total_chars_removed>>
    ELSE LET char_idx == line_to_char(t, line_idx)
             line_start == line_to_char(t, char_to_line(t, char_idx))
             length == length_of_leading_whitespace(t, line_start)
         IN  unindent_lines(remove(t, char_idx, char_idx + length), line_idx + 1,
                            last_line_idx, total_chars_removed + length)

unindent_selection(c, t) ==
    LET sel == selection(c)
    IN  IF sel.end > len_chars(t) THEN Panic(t, c) ELSE
    LET first_line_idx == char_to_line(t, sel.start)
        last_line_idx == char_to_line(t, sel.end)
        initial_grapheme_start == line_to_char(t, first_line_idx)
        next_line_start == line_to_char(t, last_line_idx + 1)
    IN  IF next_line_start = 0 \/ next_line_start - 1 < initial_grapheme_start
        THEN Panic(t, c) ELSE
    LET initial_grapheme_end == next_line_start - 1
        initial_byte_length ==
            char_to_byte(t, initial_grapheme_end) - char_to_byte(t, initial_grapheme_start)
        initial_char_length == initial_grapheme_end - initial_grapheme_start
        looped == unindent_lines(t, first_line_idx, last_line_idx, 0)
        t1 == looped[1]
        total_chars_removed == looped[2]
        final_grapheme_start == line_to_char(t1, first_line_idx)
        final_next_line_start == line_to_char(t1, last_line_idx + 1)
    IN  IF final_next_line_start = 0 \/ final_next_line_start - 1 < final_grapheme_start
        THEN Panic(t, c) ELSE
    LET final_grapheme_end == final_next_line_start - 1
        del == slice(t1, final_grapheme_start, final_grapheme_end)
        d == OpaqueDiff(char_to_byte(t1, final_grapheme_start),
                        initial_byte_length,
                        char_to_byte(t1, final_grapheme_end)
                            - char_to_byte(t1, final_grapheme_start),
                        final_grapheme_start,
                        initial_char_length,
                        final_grapheme_end - final_grapheme_start)
    IN  IF c.selection = None THEN Ret(t1, c, d, del)
        ELSE IF last_line_idx = first_line_idx THEN Panic(t, c)  \* division by zero
        ELSE
    LET head_move_count == total_chars_removed \div (last_line_idx - first_line_idx)
    IN  IF sel.end = c.range.start
        THEN \* Forward selection direction
             IF c.range.start > len_chars(t1) THEN Panic(t, c)
             ELSE LET cursor_char_idx == c.range.start
                      start_of_cursor_line ==
                          line_to_char(t1, char_to_line(t1, c.range.start))
                      move_distance ==
                          Min(total_chars_removed, cursor_char_idx - start_of_cursor_line)
                      c1 == move_horizontally(t1, c, "Backward", move_distance)
                  IN  Ret(t1,
                          IF c.selection >= head_move_count
                          THEN [c1 EXCEPT !.selection = c.selection - head_move_count]
                          ELSE c1,
                          d, del)
        ELSE \* 'Backwards' selection direction
             IF sel.start > len_chars(t1) THEN Panic(t, c)
             ELSE LET cursor_line_whitespace ==
                          length_of_leading_whitespace(t1, char_to_line(t1, sel.start))
                      moves == cursor_line_whitespace >= head_move_count
                  IN  IF moves /\ c.range.start > len_chars(t1) THEN Panic(t, c)
                      ELSE LET c1 == IF moves
                                     THEN move_horizontally(t1, c, "Backward",
                                                            head_move_count)
                                     ELSE c
                           IN  Ret(t1,
                                   IF c.selection >= total_chars_removed
                                   THEN [c1 EXCEPT !.selection =
                                             c.selection - total_chars_removed]
                                   ELSE c1,
                                   d, del)

unindent(c, t) ==
    IF c.selection # None
    THEN unindent_selection(c, t)
    ELSE IF c.range.start > len_chars(t) THEN Panic(t, c)
    ELSE LET line_start == line_to_char(t, char_to_line(t, c.range.start))
             count == length_of_leading_whitespace(t, line_start)
         IN  delete_forward_from_index(c, t, line_start, count)

\* The caller checks c.range.start <= len_chars(current_text).
sync(c, current_text, new_text) ==
    LET current_line == char_to_line(current_text, c.range.start)
        current_line_offset == c.range.start - line_to_char(current_text, current_line)
        new_line == Min(current_line, saturating_sub(len_lines(new_text), 1))
        new_line_offset ==
            Min(current_line_offset,
                saturating_sub(line_len_chars(new_text, new_line), 1))
        grapheme_end ==
            next_grapheme_boundary(new_text,
                                   line_to_char(new_text, new_line) + new_line_offset)
        grapheme_start == prev_grapheme_boundary(new_text, grapheme_end)
    IN  with_range(Range(grapheme_start, grapheme_end))

----------------------------------------------------------------------------
(* The Cursor on its own: every public operation, from Cursor::new() *)

Init ==
    /\ alphabet = {Letter, Tab, Newline, Mark}
    /\ text \in SeqsUpTo(alphabet, MaxInitLen)
    /\ cursor = CursorNew
    /\ last_op = "new"
    /\ diff = EmptyDiff
    /\ deleted = <<>>
    /\ panicked = FALSE
    /\ revisions = <<>>          \* no Edit Tree here
    /\ current = 0
    /\ viewing_edit_tree = FALSE
    /\ trail = <<>>
    /\ watcher = NoWatcher /\ link = <<>> /\ call = <<>>
    /\ frame = NoFrame /\ line_offset = 0 /\ should_render = FALSE

\* An editing operation ran and handed back r; the behaviour is followed
\* while the result is within bounds.
ReturnsIf(name, r, within) ==
    /\ ~panicked
    /\ r.panic \/ within
    /\ last_op' = name
    /\ panicked' = r.panic
    /\ text' = r.text
    /\ cursor' = r.cursor
    /\ diff' = r.diff
    /\ deleted' = r.deleted
    /\ UNCHANGED alphabet

Returns(name, r) ==
    ReturnsIf(name, r, Len(r.text) <= MaxLen /\ r.cursor.selection <= MaxAnchor)

\* An operation that returns nothing left the cursor c.
MovesIf(name, c, within) ==
    /\ ~panicked
    /\ last_op' = name
    /\ within
    /\ cursor' = c
    /\ diff' = EmptyDiff
    /\ deleted' = <<>>
    /\ UNCHANGED <<text, panicked, alphabet>>

Moves(name, c) == MovesIf(name, c, c.selection <= MaxAnchor)

Panics(name) ==
    /\ ~panicked
    /\ last_op' = name
    /\ panicked' = TRUE
    /\ diff' = EmptyDiff
    /\ deleted' = <<>>
    /\ UNCHANGED <<text, cursor, alphabet>>

InsertChar ==
    /\ \E character \in alphabet : Returns("insert_char", insert_char(cursor, text, character))
    /\ UNCHANGED <<tree_vars, watch_vars, view_vars>>

InsertChars ==
    /\ \E characters \in SeqsUpTo(alphabet, MaxInsert), overflow_checks \in BOOLEAN :
          Returns("insert_chars", insert_chars(cursor, text, characters, overflow_checks))
    /\ UNCHANGED <<tree_vars, watch_vars, view_vars>>

PrependChars ==
    /\ \E characters \in SeqsUpTo(alphabet, MaxInsert), overflow_checks \in BOOLEAN :
          Returns("prepend_chars", prepend_chars(cursor, text, characters, overflow_checks))
    /\ UNCHANGED <<tree_vars, watch_vars, view_vars>>

Unindent ==
    /\ Returns("unindent", unindent(cursor, text))
    /\ UNCHANGED <<tree_vars, watch_vars, view_vars>>

DeleteForward ==
    /\ Returns("delete_forward", delete_forward(cursor, text))
    /\ UNCHANGED <<tree_vars, watch_vars, view_vars>>

DeleteBackward ==
    /\ Returns("delete_backward", delete_backward(cursor, text))
    /\ UNCHANGED <<tree_vars, watch_vars, view_vars>>

DeleteLine ==
    /\ Returns("delete_line", delete_line(cursor, text))
    /\ UNCHANGED <<tree_vars, watch_vars, view_vars>>

DeleteSelection ==
    /\ Returns("delete_selection", delete_selection(cursor, text))
    /\ UNCHANGED <<tree_vars, watch_vars, view_vars>>

SelectAll ==
    /\ Moves("select_all", select_all(text, cursor))
    /\ UNCHANGED <<tree_vars, watch_vars, view_vars>>

BeginSelection ==
    /\ Moves("begin_selection", begin_selection(cursor))
    /\ UNCHANGED <<tree_vars, watch_vars, view_vars>>

ClearSelection ==
    /\ Moves("clear_selection", clear_selection(cursor))
    /\ UNCHANGED <<tree_vars, watch_vars, view_vars>>

MoveHorizontally ==
    /\ \E direction \in {"Forward", "Backward"} :
          IF cursor.range.start > len_chars(text)
          THEN Panics("move_horizontally")
          ELSE Moves("move_horizontally", move_horizontally(text, cursor, direction, 1))
    /\ UNCHANGED <<tree_vars, watch_vars, view_vars>>

\* Another cursor of the same buffer, placed on the grapheme at p, inserts a
\* character or deletes its grapheme; this cursor reconciles with the diff.
Reconcile ==
    /\ ~panicked
    /\ \E p \in 0..len_chars(text), character \in alphabet \cup {"delete"} :
          /\ is_grapheme_boundary(text, p)
          /\ LET other == with_range(Range(p, next_grapheme_boundary(text, p)))
                 r == IF character = "delete"
                      THEN delete_forward(other, text)
                      ELSE insert_char(other, text, character)
             IN  /\ ~r.panic
                 /\ Len(r.text) <= MaxLen
                 /\ text' = r.text
                 /\ diff' = r.diff
                 /\ cursor' = reconcile(cursor, r.text, r.diff)
    /\ last_op' = "reconcile"
    /\ deleted' = <<>>
    /\ UNCHANGED <<panicked, alphabet>>
    /\ UNCHANGED <<tree_vars, watch_vars, view_vars>>

Sync ==
    /\ ~panicked
    /\ \E new_text \in SeqsUpTo(alphabet, MaxSyncLen) :
          IF cursor.range.start > len_chars(text)
          THEN Panics("sync")
          ELSE /\ text' = new_text
               /\ cursor' = sync(cursor, text, new_text)
               /\ last_op' = "sync"
               /\ diff' = EmptyDiff
               /\ deleted' = <<>>
               /\ UNCHANGED <<panicked, alphabet>>
    /\ UNCHANGED <<tree_vars, watch_vars, view_vars>>

Next ==
    \/ InsertChar
    \/ InsertChars
    \/ PrependChars
    \/ Unindent
    \/ DeleteForward
    \/ DeleteBackward
    \/ DeleteLine
    \/ DeleteSelection
    \/ SelectAll
    \/ BeginSelection
    \/ ClearSelection
    \/ MoveHorizontally
    \/ Reconcile
    \/ Sync

Spec == Init /\ [][Next]_vars

----------------------------------------------------------------------------
(* The Cursor on indented buffers: selecting lines and unindenting them.    *)
(* A buffer starts as up to MaxIndentLines lines, each an indentation, an   *)
(* optional letter and a newline; the last line may lack the newline.       *)

Spaces(n) == [k \in 1..n |-> Space]

Indents ==
    {Spaces(n) : n \in {0, 1, 2, TAB_WIDTH, MaxIndent}} \cup {<<Tab>>}

IndentedLines == {i \o b : i \in Indents, b \in {<<>>, <<Letter>>}}

RECURSIVE IndentedTexts(_)
IndentedTexts(n) ==
    IF n = 0 THEN {<<>>}
    ELSE LET shorter == IndentedTexts(n - 1)
         IN  shorter \cup {l \o <<Newline>> \o s : l \in IndentedLines, s \in shorter}
                     \cup {l : l \in IndentedLines}

InitIndent ==
    /\ alphabet = {Letter, Space, Tab, Newline}
    /\ text \in IndentedTexts(MaxIndentLines)
    /\ cursor = CursorNew
    /\ last_op = "new"
    /\ diff = EmptyDiff
    /\ deleted = <<>>
    /\ panicked = FALSE
    /\ revisions = <<>>          \* no Edit Tree here
    /\ current = 0
    /\ viewing_edit_tree = FALSE
    /\ trail = <<>>
    /\ watcher = NoWatcher /\ link = <<>> /\ call = <<>>
    /\ frame = NoFrame /\ line_offset = 0 /\ should_render = FALSE

IndentUnindent ==
    /\ ReturnsIf("unindent", unindent(cursor, text), TRUE)
    /\ UNCHANGED <<tree_vars, watch_vars, view_vars>>

IndentSelectAll ==
    /\ MovesIf("select_all", select_all(text, cursor), TRUE)
    /\ UNCHANGED <<tree_vars, watch_vars, view_vars>>

IndentBeginSelection ==
    /\ MovesIf("begin_selection", begin_selection(cursor), TRUE)
    /\ UNCHANGED <<tree_vars, watch_vars, view_vars>>

IndentClearSelection ==
    /\ MovesIf("clear_selection", clear_selection(cursor), TRUE)
    /\ UNCHANGED <<tree_vars, watch_vars, view_vars>>

IndentMoveHorizontally ==
    /\ \E direction \in {"Forward", "Backward"} :
          IF cursor.range.start > len_chars(text)
          THEN Panics("move_horizontally")
          ELSE MovesIf("move_horizontally",
                       move_horizontally(text, cursor, direction, 1), TRUE)
    /\ UNCHANGED <<tree_vars, watch_vars, view_vars>>

NextIndent ==
    \/ IndentUnindent
    \/ IndentSelectAll
    \/ IndentBeginSelection
    \/ IndentClearSelection
    \/ IndentMoveHorizontally

SpecIndent == InitIndent /\ [][NextIndent]_vars

----------------------------------------------------------------------------
(* movement, vertical: one line up or down, keeping the offset in the line *)

move_vertically(t, c, direction) ==
    LET line == char_to_line(t, c.range.start)
        offset == c.range.start - line_to_char(t, line)
        new_line == IF direction = "Backward" THEN saturating_sub(line, 1)
                    ELSE Min(line + 1, len_lines(t) - 1)
        new_offset == Min(offset, saturating_sub(line_len_chars(t, new_line), 1))
        target == line_to_char(t, new_line) + new_offset
        grapheme_start == IF is_grapheme_boundary(t, target) THEN target
                          ELSE prev_grapheme_boundary(t, target)
    IN  [c EXCEPT !.range = Range(grapheme_start,
                                  next_grapheme_boundary(t, grapheme_start))]

----------------------------------------------------------------------------
(* EditTree: an arena of revisions; revision 1 is the root.  children holds *)
(* the indices of a revision's children in commit order, redo_index the     *)
(* position in children of the preferred child (0 while there is none).     *)

Revision(t, parent) ==
    [text |-> t, parent |-> parent, children |-> <<>>, redo_index |-> 0]

Root(t) == Revision(t, None)

\* The editor's view of one buffer: the tree, its staged text and the cursor.
Editor(t, c, revs, cur) ==
    [text |-> t, cursor |-> c, revisions |-> revs, current |-> cur, panic |-> FALSE]

EditorPanic(e) == [e EXCEPT !.panic = TRUE]


\* mutant: the new revision takes the place of the parent's last child
create_revision_replaces_last(e, new_text, new_cursor) ==
    LET child == Len(e.revisions) + 1
        parent == e.revisions[e.current]
        kept == IF parent.children = <<>> THEN <<>>
                ELSE SubSeq(parent.children, 1, Len(parent.children) - 1)
        linked == [e.revisions EXCEPT
                      ![e.current].children = Append(kept, child),
                      ![e.current].redo_index = Len(kept) + 1]
    IN  Editor(new_text, new_cursor,
               Append(linked, Revision(new_text, e.current)), child)

create_revision(e, new_text, new_cursor) ==
    LET child == Len(e.revisions) + 1
        parent == e.revisions[e.current]
        linked == [e.revisions EXCEPT
                      ![e.current].children = Append(parent.children, child),
                      ![e.current].redo_index = Len(parent.children) + 1]
    IN  Editor(new_text, new_cursor,
               Append(linked, Revision(new_text, e.current)), child)

\* swap the staged buffer for that of revision `target` and sync the cursor
checkout(e, target) ==
    IF e.cursor.range.start > len_chars(e.text) THEN EditorPanic(e)
    ELSE Editor(e.revisions[target].text,
                sync(e.cursor, e.text, e.revisions[target].text),
                e.revisions, target)

undo(e) ==
    IF e.revisions[e.current].parent = None THEN e
    ELSE checkout(e, e.revisions[e.current].parent)

redo(e) ==
    LET node == e.revisions[e.current]
    IN  IF node.children = <<>> THEN e
        ELSE checkout(e, node.children[node.redo_index])

previous_child_revision(e) ==
    LET node == e.revisions[e.current]
    IN  IF node.children = <<>> THEN e
        ELSE [e EXCEPT !.revisions[e.current].redo_index =
                  IF node.redo_index = 1 THEN Len(node.children)
                  ELSE node.redo_index - 1]

next_child_revision(e) ==
    LET node == e.revisions[e.current]
    IN  IF node.children = <<>> THEN e
        ELSE [e EXCEPT !.revisions[e.current].redo_index =
                  IF node.redo_index = Len(node.children) THEN 1
                  ELSE node.redo_index + 1]

\* an editing command: the Cursor operation on the staged buffer, committed
commit(e, r) ==
    IF r.panic THEN EditorPanic(e)
    ELSE create_revision(e, r.text, r.cursor)

cursor_move(e, c) == [e EXCEPT !.cursor = c]

cursor_move_vertically(e, direction) ==
    IF e.cursor.range.start > len_chars(e.text) THEN EditorPanic(e)
    ELSE cursor_move(e, move_vertically(e.text, e.cursor, direction))

cursor_move_horizontally(e, direction) ==
    IF e.cursor.range.start > len_chars(e.text) THEN EditorPanic(e)
    ELSE cursor_move(e, move_horizontally(e.text, e.cursor, direction, 1))

----------------------------------------------------------------------------
(* The Buffer component *)


\* mutant: up redoes in the tree view
Buffer_move_up_redoes(viewing, e) ==
    IF viewing THEN redo(e) ELSE cursor_move_vertically(e, "Backward")

Buffer_move_up(viewing, e) ==
    IF viewing THEN undo(e) ELSE cursor_move_vertically(e, "Backward")


\* mutant: down moves the cursor whatever the flag says
Buffer_move_down_ignores_flag(viewing, e) ==
    cursor_move_vertically(e, "Forward")

\* mutant: down undoes in the tree view
Buffer_move_down_undoes(viewing, e) ==
    IF viewing THEN undo(e) ELSE cursor_move_vertically(e, "Forward")

Buffer_move_down(viewing, e) ==
    IF viewing THEN redo(e) ELSE cursor_move_vertically(e, "Forward")


\* mutant: the test of viewing_edit_tree is inverted
Buffer_move_left_inverted(viewing, e) ==
    IF ~viewing THEN previous_child_revision(e)
    ELSE cursor_move_horizontally(e, "Backward")

Buffer_move_left(viewing, e) ==
    IF viewing THEN previous_child_revision(e)
    ELSE cursor_move_horizontally(e, "Backward")


\* mutant: right redoes in the tree view
Buffer_move_right_redoes(viewing, e) ==
    IF viewing THEN redo(e) ELSE cursor_move_horizontally(e, "Forward")

Buffer_move_right(viewing, e) ==
    IF viewing THEN next_child_revision(e)
    ELSE cursor_move_horizontally(e, "Forward")

\* Buffer::update: the new value of viewing_edit_tree
Buffer_update(viewing, message) ==
    IF message = "ClearSelection" /\ viewing THEN FALSE
    ELSE IF message = "ClearSelection" THEN viewing
    ELSE IF message = "ToggleEditTree" THEN ~viewing
    ELSE viewing

\* the "clear-selection" binding: a message in the tree view, else the cursor
Buffer_clear_selection(viewing, e) ==
    IF viewing
    THEN [viewing |-> Buffer_update(viewing, "ClearSelection"), editor |-> e]
    ELSE [viewing |-> viewing,
          editor |-> cursor_move(e, clear_selection(e.cursor))]

----------------------------------------------------------------------------
(* The Buffer component driving a Cursor and an Edit Tree *)

EditingOps ==
    {"insert_char", "insert_chars", "prepend_chars", "unindent", "delete_forward",
     "delete_backward", "delete_line", "delete_selection"}

InitTree ==
    /\ alphabet = {Letter, Newline}
    /\ text \in SeqsUpTo(alphabet, MaxTreeInitLen)
    /\ cursor = CursorNew
    /\ last_op = "create"
    /\ diff = EmptyDiff
    /\ deleted = <<>>
    /\ panicked = FALSE
    /\ revisions = <<Root(text)>>
    /\ current = 1
    /\ viewing_edit_tree = FALSE
    /\ trail = <<>>
    /\ watcher = NoWatcher /\ link = <<>> /\ call = <<>>
    /\ frame = NoFrame /\ line_offset = 0 /\ should_render = FALSE

Ed == Editor(text, cursor, revisions, current)

\* What trail remembers of a history step: which Edit Tree operation the
\* command ran, the state it ran in and the operation that ran right before
\* it.  Any other command ends the history.
TrailEntry(kind) ==
    [op |-> kind, text |-> text, current |-> current,
     redo_index |-> revisions[current].redo_index,
     prev |-> IF trail = <<>> THEN "" ELSE trail[Len(trail)].op]

\* the Edit Tree operation behind a command, "" when it is none
TreeOp(name, viewing) ==
    IF name \in EditingOps THEN "commit"
    ELSE IF name = "undo" \/ (name = "move_up" /\ viewing) THEN "undo"
    ELSE IF name = "redo" \/ (name = "move_down" /\ viewing) THEN "redo"
    ELSE IF name = "move_left" /\ viewing THEN "previous_child_revision"
    ELSE IF name = "move_right" /\ viewing THEN "next_child_revision"
    ELSE ""

Remember(name) ==
    LET kind == TreeOp(name, viewing_edit_tree)
        all == Append(trail, TrailEntry(kind))
    IN  IF kind = "" THEN <<>>
        ELSE IF Len(all) <= MaxTrail THEN all
        ELSE SubSeq(all, Len(all) - MaxTrail + 1, Len(all))

\* The command `name` ran and left the editor e and the flag viewing.
Handled(name, viewing, e) ==
    /\ ~panicked
    /\ e.panic \/ (Len(e.text) <= MaxTreeLen /\ Len(e.revisions) <= MaxRevisions)
    /\ last_op' = name
    /\ panicked' = e.panic
    /\ text' = e.text
    /\ cursor' = e.cursor
    /\ revisions' = e.revisions
    /\ current' = e.current
    /\ viewing_edit_tree' = viewing
    /\ trail' = Remember(name)
    /\ UNCHANGED <<diff, deleted, alphabet, watch_vars, view_vars>>

BufferMoveUp ==
    Handled("move_up", viewing_edit_tree, Buffer_move_up(viewing_edit_tree, Ed))

BufferMoveDown ==
    Handled("move_down", viewing_edit_tree, Buffer_move_down(viewing_edit_tree, Ed))

BufferMoveLeft ==
    Handled("move_left", viewing_edit_tree, Buffer_move_left(viewing_edit_tree, Ed))

BufferMoveRight ==
    Handled("move_right", viewing_edit_tree, Buffer_move_right(viewing_edit_tree, Ed))

BufferUndo == Handled("undo", viewing_edit_tree, undo(Ed))

BufferRedo == Handled("redo", viewing_edit_tree, redo(Ed))

BufferToggleEditTree ==
    Handled("toggle_edit_tree", Buffer_update(viewing_edit_tree, "ToggleEditTree"),
            Ed)

BufferClearSelection ==
    LET r == Buffer_clear_selection(viewing_edit_tree, Ed)
    IN  Handled("clear_selection", r.viewing, r.editor)

BufferInsertChar ==
    \E character \in alphabet :
        LET r == insert_char(cursor, text, character)
        IN  Handled("insert_char", viewing_edit_tree, commit(Ed, r))

BufferDeleteBackward ==
    LET r == delete_backward(cursor, text)
    IN  Handled("delete_backward", viewing_edit_tree, commit(Ed, r))

BufferDeleteForward ==
    LET r == delete_forward(cursor, text)
    IN  Handled("delete_forward", viewing_edit_tree, commit(Ed, r))

NextTree ==
    \/ BufferMoveUp
    \/ BufferMoveDown
    \/ BufferMoveLeft
    \/ BufferMoveRight
    \/ BufferUndo
    \/ BufferRedo
    \/ BufferToggleEditTree
    \/ BufferClearSelection
    \/ BufferInsertChar
    \/ BufferDeleteBackward
    \/ BufferDeleteForward

SpecTree == InitTree /\ [][NextTree]_vars

----------------------------------------------------------------------------
(* The Buffer component's window on the text: frame, line_offset and the    *)
(* Component callbacks create, change, resize and update.                   *)

MaxViewLen == 3    \* longest buffer shown
MaxHeight == 3     \* tallest frame

\* what ensure_cursor_in_view leaves in line_offset, and what it returns
Scrolled(offset, render) == [line_offset |-> offset, should_render |-> render]

\* The properties hand in a cursor with range.start <= len_chars(t).
ensure_cursor_in_view(t, c, frm, offset) ==
    LET current_line == char_to_line(t, c.range.start)
        num_lines == saturating_sub(frm.height, 1)
    IN  IF current_line < offset
        THEN Scrolled(current_line, TRUE)
        ELSE IF current_line - offset > saturating_sub(num_lines, 1)
        THEN Scrolled(current_line + 1 - num_lines, TRUE)
        ELSE Scrolled(offset, FALSE)

center_visual_cursor(t, c, frm, offset) ==
    LET line_index == char_to_line(t, c.range.start)
    IN  IF /\ line_index >= frm.height \div 2
           /\ offset # line_index - frm.height \div 2
        THEN line_index - frm.height \div 2
        ELSE IF offset # line_index THEN line_index
        ELSE 0

Buffer_create(t, c, frm) == ensure_cursor_in_view(t, c, frm, 0)

Buffer_change(t, c, frm, offset, changed_properties) ==
    LET r == ensure_cursor_in_view(t, c, frm, offset)
    IN  Scrolled(r.line_offset, r.should_render \/ changed_properties)

Buffer_resize(t, c, frm, offset, changed_frame) ==
    LET r == ensure_cursor_in_view(t, c, frm, offset)
    IN  Scrolled(r.line_offset, r.should_render \/ changed_frame)

\* Buffer::update: line_offset and the ShouldRender it returns
Buffer_update_view(t, c, frm, offset, viewing, message) ==
    IF message = "CenterCursorVisually"
    THEN Scrolled(center_visual_cursor(t, c, frm, offset), TRUE)
    ELSE IF message = "ClearSelection" /\ viewing THEN Scrolled(offset, TRUE)
    ELSE IF message = "ClearSelection" THEN Scrolled(offset, FALSE)
    ELSE Scrolled(offset, TRUE)

\* a cursor on the grapheme at index p
CursorAt(t, p) == with_range(Range(p, next_grapheme_boundary(t, p)))

Messages == {"CenterCursorVisually", "ClearSelection", "ToggleEditTree"}

InitView ==
    /\ alphabet = {Letter, Newline}
    /\ text \in SeqsUpTo(alphabet, MaxViewLen)
    /\ \E p \in 0..MaxViewLen, height \in 0..MaxHeight :
          /\ p <= len_chars(text)
          /\ cursor = CursorAt(text, p)
          /\ frame = Rect(height)
          /\ line_offset = Buffer_create(text, cursor, frame).line_offset
    /\ last_op = "create"
    /\ should_render = FALSE
    /\ viewing_edit_tree = FALSE
    /\ diff = EmptyDiff
    /\ deleted = <<>>
    /\ panicked = FALSE
    /\ revisions = <<>>
    /\ current = 0
    /\ trail = <<>>
    /\ watcher = NoWatcher /\ link = <<>> /\ call = <<>>

\* A Component callback ran and left the window r.
Drawn(name, r) ==
    /\ last_op' = name
    /\ line_offset' = r.line_offset
    /\ should_render' = r.should_render
    /\ UNCHANGED <<diff, deleted, panicked, revisions, current, trail, alphabet,
                   watch_vars>>

\* new properties: the buffer and the cursor as the editor has them now
BufferChange ==
    \E t \in SeqsUpTo(alphabet, MaxViewLen), p \in 0..MaxViewLen,
       changed_other \in BOOLEAN :
        /\ p <= len_chars(t)
        /\ text' = t
        /\ cursor' = CursorAt(t, p)
        /\ Drawn("change",
                 Buffer_change(t, CursorAt(t, p), frame, line_offset,
                               changed_other \/ t # text \/ CursorAt(t, p) # cursor))
        /\ UNCHANGED <<frame, viewing_edit_tree>>

BufferResize ==
    \E height \in 0..MaxHeight :
        /\ frame' = Rect(height)
        /\ Drawn("resize",
                 Buffer_resize(text, cursor, Rect(height), line_offset,
                               Rect(height) # frame))
        /\ UNCHANGED <<text, cursor, viewing_edit_tree>>

BufferUpdate ==
    \E message \in Messages :
        /\ viewing_edit_tree' = Buffer_update(viewing_edit_tree, message)
        /\ Drawn("update",
                 Buffer_update_view(text, cursor, frame, line_offset,
                                    viewing_edit_tree, message))
        /\ UNCHANGED <<text, cursor, frame>>

NextView ==
    \/ BufferChange
    \/ BufferResize
    \/ BufferUpdate

SpecView == InitView /\ [][NextView]_vars

----------------------------------------------------------------------------
(* FileWatcher.  A path is the sequence of its components below the root.   *)

MaxWatchees == 2   \* most registrations held at a time
MaxQueue == 2      \* longest event queue followed

Dir == <<"d">>                \* a directory
File == <<"d", "f">>          \* a file in it
Sibling == <<"d", "g">>       \* another file in it
Link == <<"l">>               \* a symbolic link to File
Missing == <<"x">>            \* a path that does not exist

Tokens == {1, 2}

\* what stands for the absence of a path (Err, None)
NoPath == <<"">>

\* Path::canonicalize
canonicalize(path) ==
    IF path = Missing THEN NoPath
    ELSE IF path = Link THEN File
    ELSE path

starts_with(path, base) ==
    Len(base) <= Len(path) /\ SubSeq(path, 1, Len(base)) = base

parent(path) ==
    IF path = <<>> THEN NoPath ELSE SubSeq(path, 1, Len(path) - 1)

\* Option<Box<PathFilter>>: a filter is the set of paths it accepts
NoFilter == [some |-> FALSE, accepts |-> {}]

SomeFilter(accepts) == [some |-> TRUE, accepts |-> accepts]

Watchee(path, recursive, token, filter) ==
    [path |-> path, recursive |-> recursive, token |-> token, filter |-> filter]

Event(kind, paths) == [kind |-> kind, paths |-> paths]

mode_from_bool(is_recursive) ==
    IF is_recursive THEN "Recursive" ELSE "NonRecursive"

applies_to_path(w, path) ==
    LET general_case ==
            IF starts_with(path, w.path)
            THEN (w.recursive \/ w.path = path) \/ parent(path) = w.path
            ELSE FALSE
    IN  IF w.filter.some
        THEN general_case /\ path \in w.filter.accepts
        ELSE general_case

wants_event(w, event) ==
    IF event.kind \in {"Create(Any)", "Remove(Any)", "Modify(Any)",
                       "Modify(Metadata(Any))"}
    THEN IF Len(event.paths) = 1
         THEN applies_to_path(w, event.paths[1])
         ELSE FALSE
    ELSE IF event.kind = "Modify(Name(Both))"
    THEN IF Len(event.paths) = 2
         THEN applies_to_path(w, event.paths[1]) \/ applies_to_path(w, event.paths[2])
         ELSE FALSE
    ELSE FALSE

\* notify's watcher: the watched paths, each with its mode
inner_watch(inner, path, mode) ==
    [q \in DOMAIN inner \cup {path} |-> IF q = path THEN mode ELSE inner[q]]

\* Whether unwatching a recursively watched directory also ends the watches
\* on the paths below it depends on the platform: drops.
inner_unwatch(inner, path, drops) ==
    IF path \notin DOMAIN inner THEN inner      \* Err, logged
    ELSE LET gone == IF inner[path] = "Recursive" /\ drops
                     THEN {q \in DOMAIN inner : starts_with(q, path)}
                     ELSE {path}
         IN  [q \in DOMAIN inner \ gone |-> inner[q]]

FileWatcherNew == [inner |-> <<>>, events |-> <<>>, watchees |-> <<>>]

RECURSIVE wanted_by(_, _)
\* <<token, event>> for the watchees that want the event, in order
wanted_by(watchees, event) ==
    IF watchees = <<>> THEN <<>>
    ELSE LET rest == wanted_by(Tail(watchees), event)
         IN  IF wants_event(Head(watchees), event)
             THEN <<(<<Head(watchees).token, event>>)>> \o rest
             ELSE rest

\* the callback handed to recommended_watcher: the watcher it leaves and the
\* tokens it sends BufferMessage::Refresh to
event_fn(fw, res) ==
    IF ~res.ok THEN [watcher |-> fw, link |-> <<>>]      \* Err, logged
    ELSE LET events == fw.events \o wanted_by(fw.watchees, res.event)
         IN  [watcher |-> [fw EXCEPT !.events = events],
              link |-> [i \in 1..Len(events) |-> events[i][1]]]

watch_impl(fw, path, recursive, token, filter) ==
    IF canonicalize(path) = NoPath THEN fw
    ELSE LET w == Watchee(canonicalize(path), recursive, token, filter)
             mode == mode_from_bool(w.recursive)
             known == \E i \in 1..Len(fw.watchees) : fw.watchees[i].path = w.path
         IN  [fw EXCEPT !.inner = IF known THEN @ ELSE inner_watch(@, w.path, mode),
                        !.watchees = Append(@, w)]

watch(fw, path, recursive, token) ==
    watch_impl(fw, path, recursive, token, NoFilter)

watch_filtered(fw, path, recursive, token, filter) ==
    watch_impl(fw, path, recursive, token, filter)

RECURSIVE watch_again(_, _, _)
\* the loop over to_add
watch_again(inner, watchees, removed_path) ==
    IF watchees = <<>> THEN inner
    ELSE LET w == Head(watchees)
         IN  watch_again(IF starts_with(w.path, removed_path)
                         THEN inner_watch(inner, w.path, mode_from_bool(w.recursive))
                         ELSE inner,
                         Tail(watchees), removed_path)

\* position of the first watchee with this token and path, 0 for None
position(watchees, path, token) ==
    LET found == {i \in 1..Len(watchees) :
                     watchees[i].token = token /\ watchees[i].path = path}
    IN  IF found = {} THEN 0 ELSE CHOOSE i \in found : \A j \in found : i <= j

without(seq, idx) == SubSeq(seq, 1, idx - 1) \o SubSeq(seq, idx + 1, Len(seq))

unwatch(fw, path, token, drops) ==
    LET idx == position(fw.watchees, path, token)
    IN  IF idx = 0 THEN fw
        ELSE LET removed == fw.watchees[idx]
                 watchees == without(fw.watchees, idx)
                 still == \E i \in 1..Len(watchees) : watchees[i].path = removed.path
                 inner1 == IF still THEN fw.inner
                           ELSE inner_unwatch(fw.inner, removed.path, drops)
                 inner2 == IF removed.recursive
                           THEN watch_again(inner1, watchees, removed.path)
                           ELSE inner1
             IN  [fw EXCEPT !.inner = inner2, !.watchees = watchees]

----------------------------------------------------------------------------
(* The FileWatcher driven by its callers and by notify.  trail holds, for   *)
(* each registration in watchees, the path watch was called with.           *)

WatchPaths == {Dir, File, Link, Missing}

Filters == {SomeFilter({File})}

Events ==
    {Event("Create(Any)", <<File>>), Event("Modify(Any)", <<Sibling>>),
     Event("Access(Any)", <<File>>), Event("Modify(Name(Both))", <<File, Sibling>>)}

InitWatch ==
    /\ alphabet = {}
    /\ text = <<>>
    /\ cursor = CursorNew
    /\ last_op = "new"
    /\ diff = EmptyDiff
    /\ deleted = <<>>
    /\ panicked = FALSE
    /\ revisions = <<>>
    /\ current = 0
    /\ viewing_edit_tree = FALSE
    /\ trail = <<>>
    /\ watcher = FileWatcherNew
    /\ link = <<>>
    /\ call = <<>>
    /\ frame = NoFrame /\ line_offset = 0 /\ should_render = FALSE

\* A call into the FileWatcher ran.
Called(name, args, fw, sent, paths) ==
    /\ last_op' = name
    /\ call' = args
    /\ watcher' = fw
    /\ link' = sent
    /\ trail' = paths
    /\ UNCHANGED <<text, cursor, diff, deleted, panicked, revisions, current,
                   viewing_edit_tree, alphabet, view_vars>>

Registered(path) ==
    IF canonicalize(path) = NoPath THEN trail ELSE Append(trail, path)

Watch ==
    /\ Len(watcher.watchees) < MaxWatchees
    /\ \E path \in WatchPaths, recursive \in BOOLEAN, token \in Tokens :
          Called("watch", [path |-> path, token |-> token],
                 watch(watcher, path, recursive, token), <<>>, Registered(path))

WatchFiltered ==
    /\ Len(watcher.watchees) < MaxWatchees
    /\ \E path \in WatchPaths, token \in Tokens, filter \in Filters :
          Called("watch_filtered", [path |-> path, token |-> token],
                 watch_filtered(watcher, path, FALSE, token, filter), <<>>,
                 Registered(path))

Unwatch ==
    \E path \in WatchPaths, token \in Tokens, drops \in BOOLEAN :
        LET idx == position(watcher.watchees, path, token)
        IN  Called("unwatch", [path |-> path, token |-> token],
                   unwatch(watcher, path, token, drops), <<>>,
                   IF idx = 0 THEN trail ELSE without(trail, idx))

EventFn ==
    \E res \in {[ok |-> TRUE, event |-> e] : e \in Events} \cup {[ok |-> FALSE]} :
        LET r == event_fn(watcher, res)
        IN  /\ Len(r.watcher.events) <= MaxQueue
            /\ Called("event_fn", res, r.watcher, r.link, trail)

NextWatch ==
    \/ Watch
    \/ WatchFiltered
    \/ Unwatch
    \/ EventFn

SpecWatch == InitWatch /\ [][NextWatch]_vars

----------------------------------------------------------------------------
(* Properties of the Cursor *)

RangeValid(t, c) ==
    /\ 0 <= c.range.start
    /\ c.range.start <= c.range.end
    /\ c.range.end <= len_chars(t)
    /\ is_grapheme_boundary(t, c.range.start)
    /\ is_grapheme_boundary(t, c.range.end)

AnchorValid(t, c) ==
    c.selection # None =>
        /\ c.selection <= len_chars(t)
        /\ is_grapheme_boundary(t, c.selection)

\* C1: after any sequence of Cursor operations the range satisfies
\* 0 <= start <= end <= len_chars and both endpoints are grapheme boundaries
\* of the buffer the cursor refers to.
C1_RangeAlwaysValid == RangeValid(text, cursor)

\* C2: the diff an editing operation returns has
\* new_char_length - old_char_length = len_chars(after) - len_chars(before).
C2_DiffCharDelta ==
    [][(last_op' \in EditingOps /\ ~panicked')
          => diff'.new_char_length - diff'.old_char_length
                = len_chars(text') - len_chars(text)]_vars

\* an unindent of a multi-line selection removed characters and reported them
C2_Witness ==
    /\ last_op = "unindent"
    /\ ~panicked
    /\ cursor.selection # None
    /\ diff.old_char_length > diff.new_char_length

\* C8: with the cursor on one grapheme and no selection, delete_forward and
\* then re-inserting the returned deleted text at the diff's char_index gives
\* back the original buffer.
C8_DeleteForwardRoundTrip ==
    [][(/\ last_op' = "delete_forward"
        /\ ~panicked'
        /\ cursor.selection = None
        /\ RangeValid(text, cursor)
        /\ cursor.range.start < cursor.range.end
        /\ cursor.range.end = next_grapheme_boundary(text, cursor.range.start))
          => insert_chars_seq(text', diff'.char_index, deleted') = text]_vars

\* The deletions the empty-deletion rule is about, read off the state the
\* operation is called in.
EmptyDeletion(op, t, c) ==
    \/ /\ op = "delete_forward"
       /\ \/ len_chars(t) = 0
          \/ c.range.start = len_chars(t)
          \/ c.range.end = c.range.start
    \/ /\ op = "delete_backward"
       /\ \/ len_chars(t) = 0
          \/ c.range.start = 0
    \/ /\ op = "unindent"
       /\ c.selection = None
       /\ c.range.start <= len_chars(t)
       /\ LET line_start == line_to_char(t, char_to_line(t, c.range.start))
          IN  \/ len_chars(t) = 0
              \/ line_start = len_chars(t)
              \/ t[line_start + 1] \notin {Tab, Space}

\* C9: an empty deletion (empty buffer, index at the end, zero length) by
\* delete_forward, delete_backward or unindent without selection returns
\* normally, leaves buffer and cursor as they are and reports a diff with all
\* lengths zero and no deleted text.
C9_EmptyDeletionIsNoOp ==
    [][(last_op' \in {"delete_forward", "delete_backward", "unindent"}
        /\ EmptyDeletion(last_op', text, cursor))
          => /\ ~panicked'
             /\ text' = text
             /\ cursor' = cursor
             /\ diff'.old_byte_length = 0 /\ diff'.new_byte_length = 0
             /\ diff'.old_char_length = 0 /\ diff'.new_char_length = 0
             /\ deleted' = <<>>]_vars

\* delete_forward at the end of a non-empty buffer did nothing
C9_Witness ==
    /\ last_op = "delete_forward"
    /\ ~panicked
    /\ len_chars(text) > 0
    /\ cursor.range.start = len_chars(text)
    /\ diff = EmptyDiff

\* C10: an editing operation called with a valid cursor returns normally.
\* (A panicking operation leaves text and cursor as they were when called.)
C10_NoUnrecoverableError ==
    (panicked /\ last_op \in EditingOps)
        => ~(RangeValid(text, cursor) /\ AnchorValid(text, cursor))

\* The buffer after is the buffer before with n characters put in at index.
InsertedAt(before, after, index, n) ==
    /\ Len(after) = Len(before) + n
    /\ SubSeq(after, 1, index) = SubSeq(before, 1, index)
    /\ SubSeq(after, index + n + 1, Len(after)) = SubSeq(before, index + 1, Len(before))

\* what C11 says of a call of insert_char or insert_chars
InsertsAtCaret ==
    /\ ~panicked'
    /\ cursor'.selection = None
    /\ cursor'.range = cursor.range
    /\ diff'.char_index = cursor.range.start
    /\ diff'.old_char_length = 0
    /\ last_op' = "insert_char" => diff'.new_char_length = 1
    /\ InsertedAt(text, text', cursor.range.start, diff'.new_char_length)
    /\ diff'.new_byte_length
          = byte_len(slice(text', cursor.range.start,
                           cursor.range.start + diff'.new_char_length))

LeadingSpaces(t, s) ==
    Cardinality({k \in 1..(Len(t) - s) : \A j \in 1..k : t[s + j] = Space})

\* a line's leading-whitespace run: one tab, or up to TAB_WIDTH spaces
LeadingRun(t, l) ==
    LET s == line_to_char(t, l)
    IN  IF s < Len(t) /\ t[s + 1] = Tab THEN 1
        ELSE Min(TAB_WIDTH, LeadingSpaces(t, s))

RECURSIVE WithoutLeadingRuns(_, _, _)
\* the buffer with the leading-whitespace runs of lines f..l taken out
WithoutLeadingRuns(t, f, l) ==
    IF l < f THEN t
    ELSE LET s == line_to_char(t, l)
         IN  WithoutLeadingRuns(remove(t, s, s + LeadingRun(t, l)), f, l - 1)

\* C12: unindent with an active selection spanning lines f..l removes from
\* each of these lines exactly its leading-whitespace run (one tab, or up to
\* TAB_WIDTH leading spaces) and changes no other character.
C12_UnindentSelection ==
    [][(/\ last_op' = "unindent"
        /\ ~panicked'
        /\ cursor.selection # None
        /\ RangeValid(text, cursor)
        /\ AnchorValid(text, cursor))
          => text' = WithoutLeadingRuns(text,
                         char_to_line(text, selection(cursor).start),
                         char_to_line(text, selection(cursor).end))]_vars

RECURSIVE PrependedLines(_, _, _, _)
\* the buffer with cs put in once at the start of each of the lines f..l
PrependedLines(t, f, l, cs) ==
    IF l < f THEN t
    ELSE PrependedLines(insert_chars_seq(t, line_to_char(t, l), cs), f, l - 1, cs)

\* where the line l ends: at its newline, or at the end of the buffer
EndOfLine(t, l) ==
    IF l + 1 < len_lines(t) THEN line_to_char(t, l + 1) - 1 ELSE len_chars(t)

\* C13: with a selection spanning lines f..l, insert_chars and prepend_chars
\* insert the given characters exactly once at the start of each of the lines
\* f..l and nowhere else, and the returned diff starts at the start of line f
\* and covers through the end of line l, in the buffer before and after.
C13_SelectionAwareInsert ==
    [][(/\ last_op' \in {"insert_chars", "prepend_chars"}
        /\ ~panicked'
        /\ cursor.selection # None
        /\ RangeValid(text, cursor)
        /\ AnchorValid(text, cursor))
          => LET f == char_to_line(text, selection(cursor).start)
                 l == char_to_line(text, selection(cursor).end)
                 n == (Len(text') - Len(text)) \div (l - f + 1)
                 s == line_to_char(text, f)
             IN  /\ Len(text') = Len(text) + n * (l - f + 1)
                 /\ text' = PrependedLines(text, f, l, SubSeq(text', s + 1, s + n))
                 /\ diff'.char_index = s
                 /\ diff'.char_index + diff'.old_char_length >= EndOfLine(text, l)
                 /\ diff'.char_index + diff'.new_char_length >= EndOfLine(text', l)]_vars

\* C14: delete_line on a non-empty buffer with the caret on line L removes
\* exactly the characters from the start of line L up to the start of line
\* L + 1 and puts range.start at the start of the line that now has index L;
\* only if the deleted line reached the end of the buffer is the cursor put
\* at the start of the last line instead (the last line with characters, or
\* the empty line after a final newline).
C14_DeleteLine ==
    [][(/\ last_op' = "delete_line"
        /\ len_chars(text) > 0
        /\ RangeValid(text, cursor))
          => LET L == char_to_line(text, cursor.range.start)
                 from == line_to_char(text, L)
                 to == line_to_char(text, L + 1)
                 last == len_lines(text') - 1
             IN  /\ ~panicked'
                 /\ text' = remove(text, from, to)
                 /\ IF to < len_chars(text)
                    THEN cursor'.range.start = line_to_char(text', L)
                    ELSE cursor'.range.start
                            \in {line_to_char(text', last),
                                 line_to_char(text', saturating_sub(last, 1))}]_vars

\* the selection span as the claims define it
SelectionSpan(c) ==
    IF c.selection = None THEN c.range
    ELSE Range(Min(c.selection, c.range.start), Max(c.selection, c.range.start))

\* C15: delete_selection on a non-empty buffer removes exactly the characters
\* of the selection span (of the range when there is no anchor), and the new
\* range.start is a grapheme boundary at or before the old selection start,
\* whether the anchor is before or after the caret.
C15_DeleteSelection ==
    [][(/\ last_op' = "delete_selection"
        /\ len_chars(text) > 0
        /\ RangeValid(text, cursor)
        /\ AnchorValid(text, cursor)
        /\ cursor.selection # cursor.range.start)
          => LET span == SelectionSpan(cursor)
             IN  /\ ~panicked'
                 /\ text' = remove(text, span.start, span.end)
                 /\ cursor'.range.start <= span.start
                 /\ is_grapheme_boundary(text', cursor'.range.start)]_vars

\* C16: reconcile on a cursor that did not cause the edit: when the edited
\* region, which starts at diff.char_index and extends for the edit's char
\* length, ends at or before range.start, both endpoints of the range are
\* shifted by new_char_length - old_char_length, never below zero.
C16_ReconcileShift ==
    [][(/\ last_op' = "reconcile"
        /\ RangeValid(text, cursor)
        /\ diff'.char_index + Max(diff'.old_char_length, diff'.new_char_length)
              <= cursor.range.start)
          => LET grown == diff'.new_char_length - diff'.old_char_length
             IN  cursor'.range = Range(Max(0, cursor.range.start + grown),
                                       Max(0, cursor.range.end + grown))]_vars

\* the start of the grapheme cluster that encloses index i
EnclosingBoundary(t, i) ==
    IF is_grapheme_boundary(t, i) THEN i ELSE prev_grapheme_boundary(t, i)

\* C17: after sync(current_buffer, new_buffer) the cursor has no selection,
\* lies on line min(old line index, last line index of new_buffer), and its
\* range.start is a grapheme boundary at the old intra-line offset clamped to
\* that line (to its length, or to its last character); syncing into an
\* empty buffer gives Cursor::new().
C17_SyncKeepsLineAndOffset ==
    [][(last_op' = "sync" /\ ~panicked' /\ RangeValid(text, cursor))
          => LET old_line == char_to_line(text, cursor.range.start)
                 old_offset == cursor.range.start - line_to_char(text, old_line)
                 line == Min(old_line, len_lines(text') - 1)
                 line_start == line_to_char(text', line)
                 length == line_len_chars(text', line)
             IN  /\ cursor'.selection = None
                 /\ char_to_line(text', cursor'.range.start) = line
                 /\ is_grapheme_boundary(text', cursor'.range.start)
                 /\ cursor'.range.start
                       <= line_start + Min(old_offset, length)
                 /\ cursor'.range.start
                       >= EnclosingBoundary(text',
                              line_start + Min(old_offset, saturating_sub(length, 1)))
                 /\ len_chars(text') = 0 => cursor' = CursorNew]_vars

DeletionOps ==
    {"delete_forward", "delete_backward", "unindent", "delete_line",
     "delete_selection"}

\* C20: when a deletion operation removes characters, the deleted text it
\* returns is exactly the sequence of characters removed from the buffer,
\* and its length is the diff's old_char_length - new_char_length.
C20_DeletedIsRemovedText ==
    [][(/\ last_op' \in DeletionOps
        /\ ~panicked'
        /\ RangeValid(text, cursor)
        /\ AnchorValid(text, cursor)
        /\ len_chars(text') < len_chars(text))
          => /\ Len(deleted') = diff'.old_char_length - diff'.new_char_length
             /\ Len(deleted') = len_chars(text) - len_chars(text')
             /\ IF last_op' = "unindent" /\ cursor.selection # None
                THEN \A k \in 1..Len(deleted') : deleted'[k] \in {Tab, Space}
                ELSE insert_chars_seq(text', diff'.char_index, deleted') = text]_vars

\* C21: every diff an editing operation returns describes one region in both
\* encodings: byte_index is the byte offset of char_index, the old/new byte
\* lengths are the UTF-8 lengths of the old/new character regions; for an
\* insertion without selection (insert_char, insert_chars, prepend_chars with
\* the caret anywhere on its line) the diff starts where the characters were
\* inserted, with old lengths 0 and new lengths those of the inserted text.
C21_DiffEncodingsAgree ==
    [][(/\ last_op' \in EditingOps
        /\ ~panicked'
        /\ RangeValid(text, cursor)
        /\ AnchorValid(text, cursor))
          => LET ci == diff'.char_index
             IN  /\ diff'.byte_index = char_to_byte(text', ci)
                 /\ ci + diff'.old_char_length <= len_chars(text)
                 /\ ci + diff'.new_char_length <= len_chars(text')
                 /\ diff'.old_byte_length
                       = byte_len(slice(text, ci, ci + diff'.old_char_length))
                 /\ diff'.new_byte_length
                       = byte_len(slice(text', ci, ci + diff'.new_char_length))
                 /\ (/\ last_op' \in {"insert_char", "insert_chars", "prepend_chars"}
                     /\ cursor.selection = None)
                       => /\ diff'.old_char_length = 0
                          /\ diff'.old_byte_length = 0
                          /\ diff'.new_char_length = len_chars(text') - len_chars(text)
                          /\ InsertedAt(text, text', ci, diff'.new_char_length)]_vars

\* C22: delete_backward with range.start > 0 does what moving one grapheme
\* backward and then delete_forward does: it removes exactly the grapheme
\* cluster that ends at the old range.start and nothing else; with
\* range.start = 0 it leaves buffer and cursor unchanged and reports an empty
\* diff.
C22_DeleteBackward ==
    [][(last_op' = "delete_backward" /\ RangeValid(text, cursor))
          => IF cursor.range.start > 0
             THEN LET cluster_start == prev_grapheme_boundary(text, cursor.range.start)
                      moved == move_horizontally(text, cursor, "Backward", 1)
                      forward == delete_forward(moved, text)
                  IN  /\ ~panicked'
                      /\ text' = remove(text, cluster_start, cursor.range.start)
                      /\ diff'.char_index = cluster_start
                      /\ diff'.old_char_length = cursor.range.start - cluster_start
                      /\ diff'.new_char_length = 0
                      /\ cursor'.range.start = cluster_start
                      /\ text' = forward.text
                      /\ cursor' = forward.cursor
                      /\ diff' = forward.diff
                      /\ deleted' = forward.deleted
             ELSE /\ ~panicked'
                  /\ text' = text
                  /\ cursor' = cursor
                  /\ diff' = EmptyDiff
                  /\ deleted' = <<>>]_vars

\* delete_backward removed a two-character cluster from inside the buffer
C22_Witness ==
    /\ last_op = "delete_backward"
    /\ ~panicked
    /\ diff.char_index > 0
    /\ diff.old_char_length = 2
    /\ cursor.range.start = diff.char_index

MaxDeletes == 3    \* most consecutive delete_forward calls followed

RECURSIVE delete_forwards(_, _, _)
\* k consecutive delete_forward calls
delete_forwards(c, t, k) ==
    IF k = 0 THEN Ret(t, c, EmptyDiff, <<>>)
    ELSE LET r == delete_forward(c, t)
         IN  IF r.panic THEN r ELSE delete_forwards(r.cursor, r.text, k - 1)

\* the cursor covers the grapheme that starts at its range.start
OnGrapheme(t, c) ==
    /\ RangeValid(t, c)
    /\ c.range.end = next_grapheme_boundary(t, c.range.start)

\* C23 (the single call): delete_forward removes exactly the characters of
\* the cursor's range and places the cursor on the grapheme that now starts
\* at the same index.
C23_OneDeleteForward ==
    /\ ~panicked'
    /\ text' = remove(text, cursor.range.start, cursor.range.end)
    /\ cursor'.range.start = cursor.range.start
    /\ OnGrapheme(text', cursor')

\* C23 (k calls): k consecutive delete_forward calls remove exactly the k
\* graphemes that started at the index, as far as they exist, and leave the
\* rest of the buffer unchanged.
C23_ManyDeleteForwards ==
    \A k \in 1..MaxDeletes :
        LET r == delete_forwards(cursor, text, k)
            i == cursor.range.start
        IN  /\ ~r.panic
            /\ r.text = remove(text, i, next_grapheme_boundary_n(text, i, k))

\* C23: delete_forward removes exactly the characters in the cursor's range
\* and then places the cursor on the grapheme that now starts at the same
\* index, so that k consecutive delete_forward calls starting with the cursor
\* on the grapheme at index i remove exactly the k graphemes that originally
\* started at i and leave the rest of the buffer unchanged.
C23_DeleteForward ==
    [][(last_op' = "delete_forward" /\ OnGrapheme(text, cursor))
          => (C23_OneDeleteForward /\ C23_ManyDeleteForwards)]_vars

\* the lines among f..l of t that start before index p / at or before it
LinesStartingBefore(t, f, l, p) ==
    Cardinality({k \in f..l : line_to_char(t, k) < p})

LinesStartingUpTo(t, f, l, p) ==
    Cardinality({k \in f..l : line_to_char(t, k) <= p})

\* index p of the buffer t, after n characters went in at the start of each
\* of the lines f..l, refers to the same character at q
SameCharacter(t, f, l, n, p, q) ==
    \/ q = p + n * LinesStartingUpTo(t, f, l, p)
    \/ q = p + n * LinesStartingBefore(t, f, l, p)

\* C24: after the selection-aware insert on a selection spanning two or more
\* lines, the selection anchor and the caret (range.start) refer to the same
\* characters of the original text as before: each is shifted forward by the
\* number of characters inserted before it, for top-down and for bottom-up
\* selections and for any number of selected lines.
C24_SelectionFollowsInsert ==
    [][(/\ last_op' \in {"insert_chars", "prepend_chars"}
        /\ ~panicked'
        /\ cursor.selection # None
        /\ RangeValid(text, cursor)
        /\ AnchorValid(text, cursor)
        /\ char_to_line(text, selection(cursor).start)
              < char_to_line(text, selection(cursor).end))
          => LET f == char_to_line(text, selection(cursor).start)
                 l == char_to_line(text, selection(cursor).end)
                 n == (Len(text') - Len(text)) \div (l - f + 1)
             IN  /\ cursor'.selection # None
                 /\ SameCharacter(text, f, l, n, cursor.selection, cursor'.selection)
                 /\ SameCharacter(text, f, l, n, cursor.range.start,
                                  cursor'.range.start)]_vars

\* C25: length_of_leading_whitespace(text, line_start) is 1 if the character
\* at line_start is a tab; otherwise the number of consecutive spaces from
\* line_start on, up to the first other character or up to TAB_WIDTH, also
\* when fewer than TAB_WIDTH characters remain after line_start; 0 at the end
\* of the buffer; always in 0..TAB_WIDTH.
C25_LeadingWhitespace ==
    \A line_start \in 0..len_chars(text) :
        LET length == length_of_leading_whitespace(text, line_start)
        IN  /\ length \in 0..TAB_WIDTH
            /\ length = IF line_start = len_chars(text) THEN 0
                        ELSE IF text[line_start + 1] = Tab THEN 1
                        ELSE Min(TAB_WIDTH, LeadingSpaces(text, line_start))

\* C26: after unindent on a multi-line selection the selection span still
\* covers the same text: a span that started at index 0 still starts at 0,
\* and the end of the span keeps its distance from the end of the buffer (an
\* end that lay behind the last line's leading whitespace), for top-down and
\* bottom-up selections; neither the anchor nor the caret becomes negative.
C26_UnindentKeepsSpan ==
    [][(/\ last_op' = "unindent"
        /\ ~panicked'
        /\ cursor.selection # None
        /\ RangeValid(text, cursor)
        /\ AnchorValid(text, cursor)
        /\ char_to_line(text, SelectionSpan(cursor).start)
              < char_to_line(text, SelectionSpan(cursor).end))
          => LET span == SelectionSpan(cursor)
                 span_after == SelectionSpan(cursor')
                 l == char_to_line(text, span.end)
             IN  /\ cursor'.selection # None
                 /\ cursor'.selection >= 0
                 /\ cursor'.range.start >= 0
                 /\ span.start = 0 => span_after.start = 0
                 /\ span.end >= line_to_char(text, l) + LeadingRun(text, l)
                       => len_chars(text') - span_after.end
                             = len_chars(text) - span.end]_vars

\* C30: after any sequence of Cursor operations (reconcile with a diff that
\* shrinks the buffer and the selection-aware insert and unindent included) a
\* present selection anchor satisfies 0 <= anchor <= len_chars of the current
\* buffer, so that selection() is a valid character range of that buffer
\* with start <= end.
C30_AnchorInBuffer ==
    cursor.selection # None
        => /\ 0 <= cursor.selection
           /\ cursor.selection <= len_chars(text)
           /\ selection(cursor).start <= selection(cursor).end
           /\ RangeValid(text, cursor) => selection(cursor).end <= len_chars(text)

----------------------------------------------------------------------------
(* Properties of the FileWatcher *)

Count(seq, x) == Cardinality({i \in 1..Len(seq) : seq[i] = x})

\* the registrations with this token that want the event
Wanting(token, event) ==
    {i \in 1..Len(watcher.watchees) :
        /\ watcher.watchees[i].token = token
        /\ wants_event(watcher.watchees[i], event)}

\* C18: the callback sends, for each event, exactly one Refresh per
\* registered watchee that wants the event, to that watchee's token, and
\* none to a token none of whose watchees wants it.
C18_RefreshOncePerToken ==
    [][(last_op' = "event_fn" /\ call'.ok)
          => \A token \in Tokens :
                Count(link', token) = Cardinality(Wanting(token, call'.event))]_vars

\* C19: unwatch(path, token) for a pair registered with watch(path, ..,
\* token) removes exactly one registration with that token and path, leaves
\* the others as they are, and the OS watch on the path is stopped if and
\* only if no remaining registration has that path.
C19_UnwatchRemovesOne ==
    [][(/\ last_op' = "unwatch"
        /\ \E i \in 1..Len(trail) :
              trail[i] = call'.path /\ watcher.watchees[i].token = call'.token)
          => \E i \in 1..Len(watcher.watchees) :
                LET removed == watcher.watchees[i]
                    remaining == watcher'.watchees
                IN  /\ removed.token = call'.token
                    /\ removed.path = canonicalize(call'.path)
                    /\ remaining = without(watcher.watchees, i)
                    /\ (removed.path \notin DOMAIN watcher'.inner)
                          <=> ~\E j \in 1..Len(remaining) :
                                  remaining[j].path = removed.path]_vars

\* the token has a registration
Registers(fw, token) ==
    \E i \in 1..Len(fw.watchees) : fw.watchees[i].token = token

\* the event is on a path the OS still watches for the FileWatcher
Watched(fw, event) ==
    \E q \in DOMAIN fw.inner, k \in 1..Len(event.paths) :
        starts_with(event.paths[k], q)

\* C27: once unwatch has removed the last registration of a token, no event
\* handled afterwards makes the callback send a Refresh for that token,
\* whatever events were delivered for the token before the unwatch.
C27_NoRefreshAfterUnwatch ==
    [][(last_op' = "event_fn" /\ call'.ok /\ Watched(watcher, call'.event))
          => \A token \in Tokens :
                ~Registers(watcher, token) => Count(link', token) = 0]_vars

----------------------------------------------------------------------------
(* Properties of the Buffer component *)

\* C28: after Buffer::create, Buffer::change or Buffer::resize, for every
\* frame height (0 and 1 included) the cursor's line is inside the visible
\* window: line_offset <= cursor line and
\* cursor line - line_offset <= max(height - 1, 1) - 1; calling
\* ensure_cursor_in_view once more with the same cursor and frame changes
\* nothing and reports ShouldRender::No.
C28_CursorInView ==
    last_op \in {"create", "change", "resize"}
        => LET line == char_to_line(text, cursor.range.start)
           IN  /\ line_offset <= line
               /\ line - line_offset <= Max(saturating_sub(frame.height, 1), 1) - 1
               /\ ensure_cursor_in_view(text, cursor, frame, line_offset)
                     = Scrolled(line_offset, FALSE)

----------------------------------------------------------------------------
(* Properties of the Edit Tree *)

Last(n) == trail[Len(trail) - n]

Children(i) == revisions[i].children

\* C3: undo right after a commit restores the buffer from before the commit;
\* redo right after that undo restores the buffer from after the commit.
C3_UndoRedoRoundTrip ==
    /\ (Len(trail) >= 2 /\ Last(1).op = "commit" /\ Last(0).op = "undo")
          => (~panicked /\ text = Last(1).text)
    /\ (Len(trail) >= 2 /\ Last(1).op = "undo" /\ Last(1).prev = "commit"
            /\ Last(0).op = "redo")
          => (~panicked /\ text = Last(1).text)

\* commit, undo, redo ran in a row and the commit had changed the buffer
C3_Witness ==
    /\ Len(trail) >= 2
    /\ Last(1).op = "undo" /\ Last(1).prev = "commit" /\ Last(0).op = "redo"
    /\ ~panicked
    /\ text # Last(0).text

\* C4: with the parent of two children A, B current and B preferred,
\* previous_child_revision then redo makes A current; redo alone makes B
\* current.
C4_BranchSelection ==
    /\ (/\ Len(trail) >= 2
        /\ Last(1).op = "previous_child_revision" /\ Last(0).op = "redo"
        /\ Len(Children(Last(1).current)) = 2
        /\ Last(1).redo_index = 2)
          => /\ ~panicked
             /\ current = Children(Last(1).current)[1]
             /\ text = revisions[Children(Last(1).current)[1]].text
    /\ (/\ Len(trail) >= 1
        /\ Last(0).op = "redo"
        /\ Len(Children(Last(0).current)) = 2
        /\ Last(0).redo_index = 2)
          => /\ ~panicked
             /\ current = Children(Last(0).current)[2]
             /\ text = revisions[Children(Last(0).current)[2]].text

\* previous_child_revision then redo reached A, whose buffer is not B's
C4_Witness ==
    /\ Len(trail) >= 2
    /\ Last(1).op = "previous_child_revision" /\ Last(0).op = "redo"
    /\ Len(Children(Last(1).current)) = 2
    /\ Last(1).redo_index = 2
    /\ current = Children(Last(1).current)[1]
    /\ text # revisions[Children(Last(1).current)[2]].text

\* C5: undo at the root and redo at a revision without children change
\* neither the current revision nor the staged buffer nor the tree, and
\* raise no error.
C5_NavigationPastEndsIsNoOp ==
    [][(\/ /\ TreeOp(last_op', viewing_edit_tree) = "undo"
           /\ revisions[current].parent = None
        \/ /\ TreeOp(last_op', viewing_edit_tree) = "redo"
           /\ revisions[current].children = <<>>)
          => /\ ~panicked'
             /\ UNCHANGED <<text, current, revisions>>]_vars

\* an undo ran at the root of a tree that has other revisions
C5_Witness ==
    /\ Len(trail) >= 1
    /\ Last(0).op = "undo"
    /\ Last(0).current = 1
    /\ current = 1
    /\ Len(revisions) > 1
    /\ ~panicked

ParentsOf(i) ==
    {<<p, k>> \in (1..Len(revisions)) \X (1..MaxRevisions) :
        k <= Len(Children(p)) /\ Children(p)[k] = i}

TreeWellFormed ==
    /\ current \in 1..Len(revisions)
    /\ revisions[1].parent = None
    /\ ParentsOf(1) = {}
    /\ \A i \in 2..Len(revisions) :
          /\ revisions[i].parent \in 1..Len(revisions)
          /\ Cardinality(ParentsOf(i)) = 1
          /\ \E k \in 1..MaxRevisions : ParentsOf(i) = {<<revisions[i].parent, k>>}

\* C6: a commit adds exactly one revision, as the last child of the revision
\* that was current, and makes it current; no revision is removed or has its
\* buffer or parent changed; every revision but the root has exactly one
\* parent, and the current revision is a revision of the tree.
C6_HistoryOnlyGrows ==
    /\ TreeWellFormed
    /\ [][/\ TreeWellFormed'
          /\ Len(revisions') >= Len(revisions)
          /\ \A i \in 1..Len(revisions) :
                /\ revisions'[i].text = revisions[i].text
                /\ revisions'[i].parent = revisions[i].parent
          /\ IF TreeOp(last_op', viewing_edit_tree) = "commit" /\ ~panicked'
             THEN /\ Len(revisions') = Len(revisions) + 1
                  /\ revisions'[Len(revisions')].parent = current
                  /\ revisions'[Len(revisions')].text = text'
                  /\ current' = Len(revisions')
                  /\ \A i \in 1..Len(revisions) :
                        revisions'[i].children =
                            IF i = current
                            THEN Append(revisions[i].children, Len(revisions'))
                            ELSE revisions[i].children
             ELSE /\ Len(revisions') = Len(revisions)
                  /\ \A i \in 1..Len(revisions) :
                        revisions'[i].children = revisions[i].children]_vars

\* a second child was committed under a revision after an undo
C6_Witness ==
    /\ Len(trail) >= 1
    /\ Last(0).op = "commit"
    /\ ~panicked
    /\ Len(Children(revisions[current].parent)) = 2
    /\ Children(revisions[current].parent)[2] = current

\* C7: previous_child_revision and next_child_revision change at most the
\* preferred-child pointer of the current revision.
C7_BranchNavigationFrame ==
    [][(TreeOp(last_op', viewing_edit_tree)
            \in {"previous_child_revision", "next_child_revision"})
          => /\ ~panicked'
             /\ UNCHANGED <<text, current>>
             /\ Len(revisions') = Len(revisions)
             /\ \A i \in 1..Len(revisions) :
                   /\ revisions'[i].text = revisions[i].text
                   /\ revisions'[i].parent = revisions[i].parent
                   /\ revisions'[i].children = revisions[i].children
                   /\ i # current => revisions'[i] = revisions[i]]_vars

\* a branch navigation moved the preferred-child pointer
C7_Witness ==
    /\ Len(trail) >= 1
    /\ Last(0).op \in {"previous_child_revision", "next_child_revision"}
    /\ Last(0).current = current
    /\ revisions[current].redo_index # Last(0).redo_index
    /\ ~panicked

----------------------------------------------------------------------------
(* Properties of the Buffer component's commands *)

\* the editor a command left is the editor e
LeftAs(e) ==
    /\ panicked' = e.panic
    /\ text' = e.text
    /\ cursor' = e.cursor
    /\ revisions' = e.revisions
    /\ current' = e.current

\* the command named name ran tree_op if the flag was set and move otherwise
Dispatches(name, tree_op, move) ==
    last_op' = name
        => /\ IF viewing_edit_tree THEN LeftAs(tree_op) ELSE LeftAs(move)
           /\ ~viewing_edit_tree => UNCHANGED <<text, revisions, current>>
           /\ UNCHANGED viewing_edit_tree

\* C29: viewing_edit_tree starts false, is flipped only by ToggleEditTree and
\* is set to false by ClearSelection; the up/down/left/right commands invoke
\* undo/redo/previous_child_revision/next_child_revision exactly when the
\* flag is true and the cursor movement exactly when it is false, never both.
C29_EditTreeFlag ==
    /\ viewing_edit_tree = FALSE
    /\ [][/\ viewing_edit_tree' # viewing_edit_tree
                => last_op' \in {"toggle_edit_tree", "clear_selection"}
          /\ last_op' = "toggle_edit_tree"
                => viewing_edit_tree' = ~viewing_edit_tree
          /\ last_op' = "clear_selection" => viewing_edit_tree' = FALSE
          /\ Dispatches("move_up", undo(Ed), cursor_move_vertically(Ed, "Backward"))
          /\ Dispatches("move_down", redo(Ed), cursor_move_vertically(Ed, "Forward"))
          /\ Dispatches("move_left", previous_child_revision(Ed),
                        cursor_move_horizontally(Ed, "Backward"))
          /\ Dispatches("move_right", next_child_revision(Ed),
                        cursor_move_horizontally(Ed, "Forward"))]_vars

\* in the tree view the down command redid a revision: the current revision
\* changed and the cursor did not go to the line below
C29_Witness ==
    /\ last_op = "move_down"
    /\ viewing_edit_tree
    /\ ~panicked
    /\ Len(trail) >= 1
    /\ Last(0).current # current
    /\ Last(0).text # text

====
